---- MODULE Spec2Model ----
(***************************************************************************)
(* Model of src/app.py: the Usage Store (load_data, save_data,             *)
(* save_chat_history, get_user_stats), the Document Ingestor               *)
(* (extract_text), the Answer Engine (ask_gemini_with_retry) and the       *)
(* Session Controller (the Streamlit page script).                         *)
(*                                                                         *)
(* Strings are sequences of tokens; the Python test `m in s` on a string   *)
(* is membership of the token m in the sequence s.                         *)
(***************************************************************************)
EXTENDS Integers, Sequences, FiniteSets, TLC

\* ------------------------------------------------------------------ bounds
\* longest session transcript the model lets a session build
MaxChat == 3
\* most history entries the model lets the whole store hold
MaxEntries == 6

\* ------------------------------------------------------- program constants
FREE_LIMIT == 5
\* a fourth attempt is made
wait_times_four == <<10, 20, 30, 40>>

\* the fixed 10-second wait of the other backoff policy
wait_times_flat == <<10, 10, 10>>

wait_times == <<10, 20, 30>>
TechnicalErrorMarker == "Technical Error"
BusyMarker == "System is extremely busy"
BusyMessage == <<BusyMarker, "Please wait 2 minutes before asking again.">>
PlaceholderKey == "PASTE_YOUR_KEY_HERE"

\* ------------------------------------------------------------ input domains
Sessions == {1, 2}
Emails == {"a@x.com", "b@x.com"}
EmailInputs == Emails \cup {""}
Questions == {"q1"}
Times == {"2026-01-01 10:00"}
KeyValues == {PlaceholderKey, "secret"}
\* what model.generate_content(prompt).text can yield
AnswerTexts == {<<"answer">>, <<"about a", TechnicalErrorMarker>>}
\* str(e) of the exceptions the remote call can raise
ErrorTexts == {<<"429", "quota">>, <<"timeout">>, <<"500", BusyMarker>>}

NoFile == [name |-> "", corrupt |-> FALSE, pages |-> <<>>]
UploadableFiles ==
    { [name |-> "d1.pdf", corrupt |-> FALSE, pages |-> << <<"p1">>, <<"p2">> >>],
      [name |-> "d2.pdf", corrupt |-> FALSE, pages |-> << <<"p1">> >>],
      [name |-> "scan.pdf", corrupt |-> FALSE, pages |-> << <<>> >>],
      [name |-> "bad.pdf", corrupt |-> TRUE, pages |-> <<>>] }

VARIABLES
    fileState,      \* DATA_FILE: "absent", "json" or "malformed"
    store,          \* the mapping DATA_FILE holds (empty when absent)
    apiKey,         \* SYSTEM_API_KEY
    active,         \* the browser sessions that are connected
    logged_in,      \* st.session_state.logged_in, per session
    user_email,     \* st.session_state.user_email, per session
    current_chat,   \* st.session_state.current_chat, per session
    uploaded_file,  \* the file_uploader widget's value, per session
    pc,             \* where the session's script run stands
    run,            \* the locals of the running question handler
    recorded        \* history: save_chat_history calls completed, per email

vars == <<fileState, store, apiKey, active, logged_in, user_email,
          current_chat, uploaded_file, pc, run, recorded>>

\* ------------------------------------------------------------ string helpers
Contains(tok, s) == \E k \in 1..Len(s) : s[k] = tok

RECURSIVE Concat(_)
Concat(pages) ==
    IF pages = <<>> THEN <<>> ELSE Head(pages) \o Concat(Tail(pages))

\* --------------------------------------------------------------- Usage Store
EmptyStore == [e \in {} |-> 0]

\* line 26: json.load raises on a file that is not well-formed JSON, and
\* load_data has no handler for it
load_data_raises == fileState = "malformed"

load_data == IF fileState = "json" THEN store ELSE EmptyStore

\* the new record starts with a credit charged
NewRecordCharged == [history |-> <<>>, credits_used |-> 1]

NewRecord == [history |-> <<>>, credits_used |-> 0]

Entry(timestamp, doc_name, question, answer) ==
    [time |-> timestamp, doc |-> doc_name, q |-> question, a |-> answer]

\* the new entry is put first
PrependEntry(history, entry) == <<entry>> \o history

AppendEntry(history, entry) == Append(history, entry)

\* the credit is charged twice
IncrementCreditsTwice(n) == n + 2

IncrementCredits(n) == n + 1

\* lines 35-41 applied to the mapping `data` that load_data returned
RecordAnswer(data, email, entry) ==
    LET rec == IF email \in DOMAIN data THEN data[email] ELSE NewRecord
        upd == [history |-> AppendEntry(rec.history, entry),
                credits_used |-> IncrementCredits(rec.credits_used)]
    IN [e \in (DOMAIN data) \cup {email} |->
            IF e = email THEN upd ELSE data[e]]

get_user_stats(email) ==
    LET data == load_data
    IN IF email \in DOMAIN data
       THEN <<data[email].credits_used, data[email].history>>
       ELSE <<0, <<>> >>

\* line 45: the exception of load_data leaves get_user_stats
get_user_stats_raises == load_data_raises

RECURSIVE SumLen(_, _)
SumLen(data, es) ==
    IF es = {} THEN 0
    ELSE LET e == CHOOSE x \in es : TRUE
         IN Len(data[e].history) + SumLen(data, es \ {e})

TotalEntries == SumLen(store, DOMAIN store)

RECURSIVE SumOver(_, _)
SumOver(f, es) ==
    IF es = {} THEN 0
    ELSE LET e == CHOOSE x \in es : TRUE
         IN f[e] + SumOver(f, es \ {e})

TotalRecorded == SumOver(recorded, Emails)

\* --------------------------------------------------------- Document Ingestor
\* None is [none |-> TRUE]; a text is [none |-> FALSE, text |-> ...]
extract_text(f) ==
    IF f.corrupt THEN [none |-> TRUE, text |-> <<>>]
    ELSE [none |-> FALSE, text |-> Concat(f.pages)]

\* only None is refused
TruthyNotNone(t) == ~t.none

\* line 142: `if text_content`
Truthy(t) == ~t.none /\ t.text # <<>>

\* ------------------------------------------------------------- Answer Engine
IsRateLimited(e) == Contains("429", e)

TechnicalError(e) == <<TechnicalErrorMarker>> \o e

\* every exception is retried
ExceptBranchAlwaysWait(e) == "wait"

\* no exception is retried
ExceptBranchAlwaysReturn(e) == "return"

\* what the except block of lines 68-80 does with the exception text e
ExceptBranch(e) == IF IsRateLimited(e) THEN "wait" ELSE "return"

\* the loop stops after two iterations
HasNextIterationTwo(i) == i + 1 < 2

\* the for loop of line 65 has another iteration after iteration i (0-based)
HasNextIteration(i) == i + 1 < Len(wait_times)

\* the locals of one question handler run; outcomes logs what each remote
\* attempt of the call did (ok and the text, or the exception text), waits
\* and waited count the backoff waits and their seconds
IdleRun == [i |-> 0, outcomes |-> <<>>, waits |-> 0, waited |-> 0,
            exit |-> "none", bot_reply |-> <<>>,
            user_question |-> "", loaded |-> EmptyStore]

Outcome(ok, text) == [ok |-> ok, text |-> text]

\* --------------------------------------------------------- Session Controller
\* only the technical-error marker is tested
HasMarkerTechnicalOnly(reply) == Contains(TechnicalErrorMarker, reply)

HasMarker(reply) ==
    Contains(TechnicalErrorMarker, reply) \/ Contains(BusyMarker, reply)

\* the quota is one too generous
credits_left_off_by_one(s) ==
    FREE_LIMIT + 1 - get_user_stats(user_email[s])[1]

credits_left(s) == FREE_LIMIT - get_user_stats(user_email[s])[1]

UserMsg(q) == [role |-> "user", content |-> <<q>>]
AssistantMsg(r) == [role |-> "assistant", content |-> r]

\* line 108 ends the script run when get_user_stats raises: nothing below
\* it is drawn
DashboardDrawn(s) == logged_in[s] /\ ~get_user_stats_raises

Init ==
    /\ fileState \in {"absent", "json"}
    /\ store = EmptyStore
    /\ apiKey \in KeyValues
    /\ active = {1}
    /\ logged_in = [s \in Sessions |-> FALSE]
    /\ user_email = [s \in Sessions |-> ""]
    /\ current_chat = [s \in Sessions |-> <<>>]
    /\ uploaded_file = [s \in Sessions |-> NoFile]
    /\ pc = [s \in Sessions |-> "idle"]
    /\ run = [s \in Sessions |-> IdleRun]
    /\ recorded = [e \in Emails |-> 0]

\* lines 85-90 in a fresh session (the browser page is opened anew)
NewSession(s) ==
    /\ s \in active /\ pc[s] = "idle"
    /\ logged_in' = [logged_in EXCEPT ![s] = FALSE]
    /\ user_email' = [user_email EXCEPT ![s] = ""]
    /\ current_chat' = [current_chat EXCEPT ![s] = <<>>]
    /\ uploaded_file' = [uploaded_file EXCEPT ![s] = NoFile]
    /\ UNCHANGED <<recorded, fileState, store, apiKey, active, pc, run>>

\* lines 93-104
Login(s, email_input) ==
    /\ s \in active /\ pc[s] = "idle"
    /\ ~logged_in[s]
    /\ IF email_input # ""
       THEN /\ logged_in' = [logged_in EXCEPT ![s] = TRUE]
            /\ user_email' = [user_email EXCEPT ![s] = email_input]
       ELSE UNCHANGED <<logged_in, user_email>>
    /\ UNCHANGED <<recorded, fileState, store, apiKey, active, current_chat,
                   uploaded_file, pc, run>>

\* lines 131-133; the uploader widget is not drawn on the login page
Logout(s) ==
    /\ s \in active /\ pc[s] = "idle"
    /\ DashboardDrawn(s)
    /\ logged_in' = [logged_in EXCEPT ![s] = FALSE]
    /\ uploaded_file' = [uploaded_file EXCEPT ![s] = NoFile]
    /\ UNCHANGED <<recorded, fileState, store, apiKey, active, user_email,
                   current_chat, pc, run>>

\* line 137
Upload(s, f) ==
    /\ s \in active /\ pc[s] = "idle"
    /\ DashboardDrawn(s)
    /\ uploaded_file[s] # f
    /\ uploaded_file' = [uploaded_file EXCEPT ![s] = f]
    /\ UNCHANGED <<recorded, fileState, store, apiKey, active, logged_in, user_email,
                   current_chat, pc, run>>

\* the input of lines 150-151 is on the page
InputAvailable(s) ==
    /\ DashboardDrawn(s)
    /\ uploaded_file[s] # NoFile
    /\ Truthy(extract_text(uploaded_file[s]))
    /\ credits_left(s) > 0

\* what the script draws for the session between two runs (lines 93-186);
\* st.error occurs only inside the question handler (lines 160, 181)
Rendered(s) ==
    IF ~logged_in[s] THEN {"login_form"}
    ELSE IF get_user_stats_raises THEN {"exception"}
    ELSE {"sidebar", "logout_button", "uploader"} \cup
         (IF uploaded_file[s] # NoFile
             /\ Truthy(extract_text(uploaded_file[s]))
          THEN {"transcript"} \cup
               (IF credits_left(s) > 0
                THEN {"chat_input"}
                ELSE {"limit_warning", "limit_info", "upgrade_button"})
          ELSE {})

\* lines 108-109, 139-167: one script run up to the call of the engine
AskQuestion(s, q) ==
    /\ s \in active /\ pc[s] = "idle"
    /\ InputAvailable(s)
    /\ Len(current_chat[s]) + 2 <= MaxChat
    /\ TotalEntries < MaxEntries
    /\ TotalRecorded < MaxEntries
    /\ current_chat' = [current_chat EXCEPT ![s] = Append(@, UserMsg(q))]
    /\ IF apiKey = PlaceholderKey
       THEN UNCHANGED <<pc, run>>
       ELSE /\ pc' = [pc EXCEPT ![s] = "calling"]
            /\ run' = [run EXCEPT ![s] = [IdleRun EXCEPT !.user_question = q]]
    /\ UNCHANGED <<recorded, fileState, store, apiKey, active, logged_in, user_email,
                   uploaded_file>>

\* line 67: the remote call of iteration run[s].i succeeds
GenerateOk(s, text) ==
    /\ s \in active /\ pc[s] = "calling"
    /\ run' = [run EXCEPT ![s].outcomes = Append(@, Outcome(TRUE, text)),
                          ![s].bot_reply = text,
                          ![s].exit = "returned"]
    /\ pc' = [pc EXCEPT ![s] = "replied"]
    /\ UNCHANGED <<recorded, fileState, store, apiKey, active, logged_in, user_email,
                   current_chat, uploaded_file>>

\* lines 68-82: the remote call of iteration run[s].i raises e
GenerateFail(s, e) ==
    /\ s \in active /\ pc[s] = "calling"
    /\ LET r == run[s]
           failed == [r EXCEPT !.outcomes = Append(@, Outcome(FALSE, e))]
       IN IF ExceptBranch(e) = "wait"
          THEN LET waitedRun == [failed EXCEPT
                                   !.waits = @ + 1,
                                   !.waited = @ + wait_times[r.i + 1]]
               IN IF HasNextIteration(r.i)
                  THEN /\ run' = [run EXCEPT ![s] =
                                     [waitedRun EXCEPT !.i = @ + 1]]
                       /\ UNCHANGED pc
                  ELSE /\ run' = [run EXCEPT ![s] =
                                     [waitedRun EXCEPT
                                        !.bot_reply = BusyMessage,
                                        !.exit = "returned"]]
                       /\ pc' = [pc EXCEPT ![s] = "replied"]
          ELSE /\ run' = [run EXCEPT ![s] =
                             [failed EXCEPT
                                !.bot_reply = TechnicalError(e),
                                !.exit = "returned"]]
               /\ pc' = [pc EXCEPT ![s] = "replied"]
    /\ UNCHANGED <<recorded, fileState, store, apiKey, active, logged_in, user_email,
                   current_chat, uploaded_file>>

\* lines 172-177: the reply is shown; a reply without a failure marker is
\* appended and save_chat_history starts (line 34, load_data); an
\* exception of load_data is caught at line 180 and ends the run
HandleReply(s) ==
    /\ s \in active /\ pc[s] = "replied"
    /\ IF ~HasMarker(run[s].bot_reply)
       THEN /\ current_chat' = [current_chat EXCEPT ![s] =
                                  Append(@, AssistantMsg(run[s].bot_reply))]
            /\ IF load_data_raises
               THEN /\ run' = [run EXCEPT ![s] = IdleRun]
                    /\ pc' = [pc EXCEPT ![s] = "idle"]
               ELSE /\ run' = [run EXCEPT ![s].loaded = load_data]
                    /\ pc' = [pc EXCEPT ![s] = "saving"]
       ELSE /\ run' = [run EXCEPT ![s] = IdleRun]
            /\ pc' = [pc EXCEPT ![s] = "idle"]
            /\ UNCHANGED current_chat
    /\ UNCHANGED <<recorded, fileState, store, apiKey, active, logged_in, user_email,
                   uploaded_file>>

\* the mapping is read again when it is written
SavedMappingReread(s) == load_data

\* the local `data` of save_chat_history: what line 34 loaded is what
\* lines 35-42 change and write
SavedMapping(s) == run[s].loaded

\* lines 35-42 and 178-179: the rest of save_chat_history, then the rerun
SaveChat(s, timestamp) ==
    /\ s \in active /\ pc[s] = "saving"
    /\ store' = RecordAnswer(SavedMapping(s), user_email[s],
                             Entry(timestamp, uploaded_file[s].name,
                                   run[s].user_question, run[s].bot_reply))
    /\ fileState' = "json"
    /\ run' = [run EXCEPT ![s] = IdleRun]
    /\ pc' = [pc EXCEPT ![s] = "idle"]
    /\ recorded' = [recorded EXCEPT ![user_email[s]] = @ + 1]
    /\ UNCHANGED <<apiKey, active, logged_in, user_email, current_chat,
                   uploaded_file>>

Next ==
    \E s \in Sessions :
        \/ NewSession(s)
        \/ \E e \in EmailInputs : Login(s, e)
        \/ Logout(s)
        \/ \E f \in UploadableFiles \cup {NoFile} : Upload(s, f)
        \/ \E q \in Questions : AskQuestion(s, q)
        \/ \E t \in AnswerTexts : GenerateOk(s, t)
        \/ \E e \in ErrorTexts : GenerateFail(s, e)
        \/ HandleReply(s)
        \/ \E t \in Times : SaveChat(s, t)

Spec == Init /\ [][Next]_vars

\* the page started on any DATA_FILE the disk can hold: none, a JSON file,
\* or a file that is not well-formed JSON
InitFile ==
    /\ fileState \in {"absent", "json", "malformed"}
    /\ store = EmptyStore
    /\ apiKey \in KeyValues
    /\ active = {1}
    /\ logged_in = [s \in Sessions |-> FALSE]
    /\ user_email = [s \in Sessions |-> ""]
    /\ current_chat = [s \in Sessions |-> <<>>]
    /\ uploaded_file = [s \in Sessions |-> NoFile]
    /\ pc = [s \in Sessions |-> "idle"]
    /\ run = [s \in Sessions |-> IdleRun]
    /\ recorded = [e \in Emails |-> 0]

SpecFile == InitFile /\ [][Next]_vars

\* two browser sessions use the page at the same time; each runs its
\* script in its own thread, so their steps interleave. A session changes
\* its email by starting anew (NewSession) and uses one document, one
\* answer text and one error text
ConcFiles == {f \in UploadableFiles : f.name = "d1.pdf"}
ConcAnswers == {<<"answer">>}
ConcErrors == {<<"timeout">>}

InitConc ==
    /\ fileState = "json"
    /\ store = EmptyStore
    /\ apiKey = "secret"
    /\ active = {1, 2}
    /\ logged_in = [s \in Sessions |-> FALSE]
    /\ user_email = [s \in Sessions |-> ""]
    /\ current_chat = [s \in Sessions |-> <<>>]
    /\ uploaded_file = [s \in Sessions |-> NoFile]
    /\ pc = [s \in Sessions |-> "idle"]
    /\ run = [s \in Sessions |-> IdleRun]
    /\ recorded = [e \in Emails |-> 0]

NextConc ==
    \E s \in Sessions :
        \/ NewSession(s)
        \/ \E e \in Emails : Login(s, e)
        \/ \E f \in ConcFiles : Upload(s, f)
        \/ \E q \in Questions : AskQuestion(s, q)
        \/ \E t \in ConcAnswers : GenerateOk(s, t)
        \/ \E e \in ConcErrors : GenerateFail(s, e)
        \/ HandleReply(s)
        \/ \E t \in Times : SaveChat(s, t)

SpecConc == InitConc /\ [][NextConc]_vars

TypeOK ==
    /\ fileState \in {"absent", "json", "malformed"}
    /\ DOMAIN store \subseteq Emails
    /\ \A s \in Sessions : pc[s] \in {"idle", "calling", "replied", "saving"}

\* ---------------------------------------------------------------- claims
Credits(e) == get_user_stats(e)[1]
History(e) == get_user_stats(e)[2]

CreditsMatchHistory ==
    \A e \in DOMAIN store : store[e].credits_used = Len(store[e].history)

CreditsNeverDecrease ==
    \A e \in DOMAIN store :
        e \in DOMAIN store' /\ store'[e].credits_used >= store[e].credits_used

\* C1: for every email in the store credits_used equals the number of
\* entries of its history, and credits_used never decreases from one state
\* to the next.
C1_CreditsCountEntries ==
    []CreditsMatchHistory /\ [][CreditsNeverDecrease]_vars

\* two answers were recorded for one email and one for another
C1_Witness ==
    \E e1, e2 \in DOMAIN store :
        e1 # e2 /\ store[e1].credits_used = 2 /\ store[e2].credits_used = 1

NoMarkerKept ==
    /\ \A s \in Sessions : \A k \in 1..Len(current_chat[s]) :
          current_chat[s][k].role = "assistant"
              => ~Contains(TechnicalErrorMarker, current_chat[s][k].content)
                 /\ ~Contains(BusyMarker, current_chat[s][k].content)
    /\ \A e \in DOMAIN store : \A k \in 1..Len(store[e].history) :
          /\ ~Contains(TechnicalErrorMarker, store[e].history[k].a)
          /\ ~Contains(BusyMarker, store[e].history[k].a)

MarkerReplyDropped ==
    \A s \in Sessions :
        ( /\ pc[s] = "replied"
          /\ \/ Contains(TechnicalErrorMarker, run[s].bot_reply)
             \/ Contains(BusyMarker, run[s].bot_reply) )
        => /\ store' = store /\ fileState' = fileState
           /\ current_chat'[s] = current_chat[s]
           /\ pc'[s] # "saving"

\* C2: a reply with a failure marker is never appended to the transcript as
\* an assistant message and never saved: handling it leaves the store and
\* the transcript as they were.
C2_FailureReplyNotKept ==
    []NoMarkerKept /\ [][MarkerReplyDropped]_vars

\* a run with a configured key ended on a failure reply: the question is
\* the last message and nothing was recorded
C2_Witness ==
    \E s \in active :
        /\ pc[s] = "idle" /\ apiKey # PlaceholderKey
        /\ Len(current_chat[s]) = 1
        /\ current_chat[s][1].role = "user"
        /\ store = EmptyStore

\* C3: in a single session a question is in the engine only while
\* FREE_LIMIT - credits_used > 0 for the session's email, and credits_used
\* of no email exceeds FREE_LIMIT.
C3_QuotaGate ==
    /\ \A e \in DOMAIN store : store[e].credits_used <= FREE_LIMIT
    /\ \A s \in active :
          pc[s] # "idle" => FREE_LIMIT - Credits(user_email[s]) > 0
    /\ \A s \in active :
          Credits(user_email[s]) = FREE_LIMIT
              => ~ENABLED (\E q \in Questions : AskQuestion(s, q))

\* five answers recorded for the email of a logged-in session that has a
\* readable document: the quota is 0
C3_Witness ==
    \E s \in active :
        /\ logged_in[s] /\ pc[s] = "idle"
        /\ uploaded_file[s] # NoFile
        /\ Truthy(extract_text(uploaded_file[s]))
        /\ Credits(user_email[s]) = 5
        /\ Len(History(user_email[s])) = 5

\* the sessions that are inside a call of ask_gemini_with_retry or have
\* its return value in hand
InCall(s) == s \in active /\ pc[s] \in {"calling", "replied"}

RateLimitFailure(o) == ~o.ok /\ Contains("429", o.text)
OtherFailure(o) == ~o.ok /\ ~Contains("429", o.text)

AllRateLimited(os, n) == \A k \in 1..n : RateLimitFailure(os[k])

\* C4: when every remote attempt fails with a "429" error the call makes
\* exactly 3 attempts and then returns the busy message; it does not raise.
C4_BusyAfterThreeRateLimits ==
    \A s \in Sessions : InCall(s) =>
        LET os == run[s].outcomes IN
        (os # <<>> /\ AllRateLimited(os, Len(os))) =>
            \/ /\ Len(os) < 3 /\ pc[s] = "calling" /\ run[s].exit = "none"
            \/ /\ Len(os) = 3 /\ pc[s] = "replied"
               /\ run[s].exit = "returned"
               /\ run[s].bot_reply = BusyMessage

\* three rate-limit failures, the busy message returned
C4_Witness ==
    \E s \in active :
        /\ pc[s] = "replied" /\ Len(run[s].outcomes) = 3
        /\ AllRateLimited(run[s].outcomes, 3)
        /\ run[s].bot_reply = BusyMessage

\* C5: an attempt that fails with an error that is not rate-limited ends
\* the call at once with the technical-error string: it is the last
\* attempt and no backoff wait follows it.
C5_OtherErrorReturnsAtOnce ==
    \A s \in Sessions : InCall(s) =>
        LET os == run[s].outcomes IN
        \A k \in 1..Len(os) : OtherFailure(os[k]) =>
            /\ k = Len(os)
            /\ pc[s] = "replied" /\ run[s].exit = "returned"
            /\ run[s].bot_reply = <<TechnicalErrorMarker>> \o os[k].text
            /\ run[s].waits = k - 1

\* the second attempt failed with an error that is not rate-limited
C5_Witness ==
    \E s \in active :
        /\ pc[s] = "replied" /\ Len(run[s].outcomes) = 2
        /\ RateLimitFailure(run[s].outcomes[1])
        /\ OtherFailure(run[s].outcomes[2])

\* C6: after rate-limit failures on attempts 1..k-1 the call makes attempt
\* k (k <= 3) having waited k-1 times, and when attempt k succeeds it
\* returns that attempt's text with exactly k-1 backoff waits.
C6_SuccessAfterRetries ==
    \A s \in Sessions : InCall(s) =>
        LET os == run[s].outcomes
            n == Len(os) IN
        (n >= 1 /\ AllRateLimited(os, n - 1)) =>
            /\ n <= 3
            /\ os[n].ok =>
                  /\ pc[s] = "replied" /\ run[s].exit = "returned"
                  /\ run[s].bot_reply = os[n].text
                  /\ run[s].waits = n - 1
            /\ (RateLimitFailure(os[n]) /\ n < 3) =>
                  /\ pc[s] = "calling" /\ run[s].waits = n

\* rate-limit failures on attempts 1 and 2, success on attempt 3, 2 waits
C6_Witness ==
    \E s \in active :
        /\ pc[s] = "replied" /\ Len(run[s].outcomes) = 3
        /\ AllRateLimited(run[s].outcomes, 2)
        /\ run[s].outcomes[3].ok
        /\ run[s].bot_reply = run[s].outcomes[3].text
        /\ run[s].waits = 2

ReturnedSuccess(s) ==
    LET os == run[s].outcomes IN
    os[Len(os)].ok /\ run[s].bot_reply = os[Len(os)].text

ReturnedTechnicalError(s) ==
    LET os == run[s].outcomes IN
    /\ OtherFailure(os[Len(os)])
    /\ run[s].bot_reply = <<TechnicalErrorMarker>> \o os[Len(os)].text

ReturnedBusy(s) ==
    LET os == run[s].outcomes IN
    AllRateLimited(os, Len(os)) /\ run[s].bot_reply = BusyMessage

\* C7: whatever the remote outcomes, the call makes at most 3 attempts, is
\* still to make one while it runs, and every exit is a returned string of
\* exactly one kind (success text, technical-error string, busy message);
\* no exit is a raised exception.
C7_CallAlwaysReturnsString ==
    \A s \in Sessions : InCall(s) =>
        /\ Len(run[s].outcomes) <= 3
        /\ run[s].exit # "raised"
        /\ pc[s] = "calling" =>
              Len(run[s].outcomes) < 3 /\ run[s].exit = "none"
        /\ pc[s] = "replied" =>
              /\ run[s].exit = "returned"
              /\ Len(run[s].outcomes) >= 1
              /\ Cardinality({k \in {1, 2, 3} :
                     \/ k = 1 /\ ReturnedSuccess(s)
                     \/ k = 2 /\ ReturnedTechnicalError(s)
                     \/ k = 3 /\ ReturnedBusy(s)}) = 1

\* a call that returned after a rate-limit failure and another error
C7_Witness ==
    \E s \in active :
        /\ pc[s] = "replied" /\ Len(run[s].outcomes) = 3
        /\ RateLimitFailure(run[s].outcomes[2])
        /\ OtherFailure(run[s].outcomes[3])

OldHistory(e) == IF e \in DOMAIN store THEN store[e].history ELSE <<>>

SaveAppendsOne(s) ==
    LET e == user_email[s]
        old == OldHistory(e)
        new == store'[e].history IN
    /\ DOMAIN store' = DOMAIN store \cup {e}
    /\ \A o \in DOMAIN store \ {e} : store'[o] = store[o]
    /\ Len(new) = Len(old) + 1
    /\ SubSeq(new, 1, Len(old)) = old
    /\ new[Len(new)].doc = uploaded_file[s].name
    /\ new[Len(new)].q = run[s].user_question
    /\ new[Len(new)].a = run[s].bot_reply
    /\ new[Len(new)].time \in Times

HistoryAppendOnly ==
    /\ \A s \in active :
          (pc[s] = "saving" /\ pc'[s] = "idle") => SaveAppendsOne(s)
    /\ store' # store =>
          \E s \in active : pc[s] = "saving" /\ pc'[s] = "idle"

\* C8: every save_chat_history call leaves the entries written before, of
\* every email, in place, in order and with their fields, and adds exactly
\* one entry at the end of the given email's history; nothing else changes
\* the store.
C8_HistoryAppendOnly == [][HistoryAppendOnly]_vars

\* a history whose two entries differ, next to another email's history
C8_Witness ==
    \E e1, e2 \in DOMAIN store :
        /\ e1 # e2
        /\ Len(store[e1].history) = 2
        /\ store[e1].history[1].doc # store[e1].history[2].doc

Alternates(chat) ==
    /\ Len(chat) % 2 = 0
    /\ \A k \in 1..Len(chat) :
          chat[k].role = (IF k % 2 = 1 THEN "user" ELSE "assistant")

\* C9: a question whose reply has a failure marker leaves the transcript
\* unchanged, so between script runs the transcript alternates user and
\* assistant messages (the API key being configured).
C9_TranscriptAlternates ==
    \A s \in active :
        (pc[s] = "idle" /\ apiKey # PlaceholderKey)
            => Alternates(current_chat[s])

LoginStartsEmpty ==
    \A s \in active :
        (~logged_in[s] /\ logged_in'[s]) => current_chat'[s] = <<>>

\* C10: after a logout the transcript is discarded: every login starts
\* with an empty transcript.
C10_LoginStartsWithEmptyTranscript == [][LoginStartsEmpty]_vars

\* C11: get_user_stats(email) of an email without a record returns (0, [])
\* whatever the backing file is (absent, well-formed, malformed) and never
\* fails.
C11_UnknownEmailStats ==
    \A s \in active :
        (logged_in[s] /\ user_email[s] \notin DOMAIN store)
            => /\ ~get_user_stats_raises
               /\ get_user_stats(user_email[s]) = <<0, <<>> >>

\* C12: a malformed file is handled like a missing one: load_data raises
\* nothing and returns the empty mapping, so the dashboard of a logged-in
\* session is drawn as on an empty store.
C12_MalformedLikeMissing ==
    \A s \in active :
        (logged_in[s] /\ fileState = "malformed")
            => /\ ~load_data_raises /\ load_data = EmptyStore
               /\ DashboardDrawn(s)

FirstSaveCreatesRecord ==
    \A s \in active :
        (pc[s] = "saving" /\ pc'[s] = "idle" /\ fileState = "absent") =>
            LET e == user_email[s] IN
            /\ run[s].loaded = EmptyStore
            /\ fileState' = "json"
            /\ DOMAIN store' = {e}
            /\ store'[e].credits_used = 1
            /\ Len(store'[e].history) = 1
            /\ store'[e].history[1].doc = uploaded_file[s].name
            /\ store'[e].history[1].q = run[s].user_question
            /\ store'[e].history[1].a = run[s].bot_reply

\* C13: with the file missing load_data returns the empty mapping, and the
\* first save_chat_history creates the email's record with credits_used = 1
\* and one entry holding the document name, the question and the answer.
C13_FirstSaveOnMissingFile ==
    [](fileState = "absent" => ~load_data_raises /\ load_data = EmptyStore)
    /\ [][FirstSaveCreatesRecord]_vars

\* save_chat_history has read the missing file and is about to write
C13_Witness ==
    \E s \in active :
        /\ pc[s] = "saving" /\ fileState = "absent"
        /\ run[s].loaded = EmptyStore
        /\ user_email[s] = "a@x.com"

SaveOverwritesFromSnapshot ==
    \A s \in active :
        (pc[s] = "saving" /\ pc'[s] = "idle") =>
            LET snap == run[s].loaded
                e == user_email[s] IN
            /\ DOMAIN store' = DOMAIN snap \cup {e}
            /\ \A o \in DOMAIN snap \ {e} : store'[o] = snap[o]
            /\ store'[e].credits_used =
                  (IF e \in DOMAIN snap THEN snap[e].credits_used ELSE 0) + 1

\* C14: save_chat_history is a whole-file read-modify-write in two steps:
\* the write puts back the mapping read earlier plus one entry, whatever
\* another session wrote in between, so an update of another email can be
\* lost (the witness is such a state).
C14_WriteFromStaleSnapshot == [][SaveOverwritesFromSnapshot]_vars

\* one answer was recorded for each of two emails by two sessions, and the
\* store lacks the record of one of them
C14_Witness ==
    /\ pc[1] = "idle" /\ pc[2] = "idle"
    /\ user_email[1] # user_email[2]
    /\ recorded["a@x.com"] = 1 /\ recorded["b@x.com"] = 1
    /\ DOMAIN store = {"b@x.com"}
    /\ store["b@x.com"].credits_used = 1

\* C20: credits_used of an email never exceeds FREE_LIMIT, also with two
\* sessions logged in with the same email.
C20_QuotaHoldsAcrossSessions ==
    \A e \in DOMAIN store : store[e].credits_used <= FREE_LIMIT

IngestionFailed(s) ==
    /\ pc[s] = "idle" /\ DashboardDrawn(s)
    /\ uploaded_file[s] # NoFile
    /\ LET t == extract_text(uploaded_file[s]) IN t.none \/ t.text = <<>>

\* C15: when ingestion fails (None or no text) an error message is on the
\* page and the question input is not, until another file is uploaded.
C15_IngestionFailureShown ==
    \A s \in active :
        IngestionFailed(s)
            => "error" \in Rendered(s) /\ "chat_input" \notin Rendered(s)

\* C16: on every path of the call, the busy path included, the number of
\* backoff waits is the number of remote attempts minus one.
C16_WaitsOneLessThanAttempts ==
    \A s \in active :
        pc[s] = "replied" => run[s].waits = Len(run[s].outcomes) - 1

\* C17: a question is in the Answer Engine only while the session is
\* logged in and has an uploaded file whose extracted text is not None and
\* not empty.
C17_EngineNeedsLoginAndText ==
    \A s \in Sessions :
        pc[s] \in {"calling", "replied"} =>
            /\ s \in active /\ logged_in[s] /\ user_email[s] # ""
            /\ uploaded_file[s] # NoFile
            /\ ~extract_text(uploaded_file[s]).none
            /\ extract_text(uploaded_file[s]).text # <<>>

\* the engine is called for a logged-in session with a two-page document
C17_Witness ==
    \E s \in active :
        /\ pc[s] = "calling" /\ logged_in[s]
        /\ uploaded_file[s].name = "d1.pdf"
        /\ extract_text(uploaded_file[s]).text = <<"p1", "p2">>

\* C18: the i-th backoff wait of a call lasts 10*i seconds (so w waits took
\* 10 + ... + 10*w seconds), there are at most 3, and a call never waits
\* more than 60 seconds.
C18_BackoffEscalates ==
    \A s \in Sessions : InCall(s) =>
        /\ run[s].waits <= 3
        /\ run[s].waited = 5 * run[s].waits * (run[s].waits + 1)
        /\ run[s].waited <= 60

\* three waits were made, of 10, 20 and 30 seconds
C18_Witness ==
    \E s \in active : InCall(s) /\ run[s].waits = 3 /\ run[s].waited = 60

SuccessIsRecorded ==
    \A s \in active :
        LET os == run[s].outcomes IN
        ( /\ pc[s] = "replied" /\ pc'[s] # "replied"
          /\ os # <<>> /\ os[Len(os)].ok )
        => /\ pc'[s] = "saving"
           /\ current_chat'[s] =
                 Append(current_chat[s],
                        [role |-> "assistant", content |-> os[Len(os)].text])

\* C19: whenever the remote call succeeded, whatever its text, the reply is
\* appended to the transcript and handed to save_chat_history.
C19_SuccessAlwaysRecorded == [][SuccessIsRecorded]_vars

====
